---- MODULE Spec2Model ----
(***************************************************************************)
(* Churn prediction service: training run (train.py) that persists a       *)
(* model/preprocessor pair, the serving process (api/app.py) that loads    *)
(* the pair once at startup and answers requests, and the pure helpers     *)
(* they use.                                                               *)
(*                                                                         *)
(* Conventions                                                             *)
(*  - a Python str is a sequence of tokens; a token is a word or one       *)
(*    whitespace character, so "Two year" is <<"Two", " ", "year">>, ""    *)
(*    is <<>> and " " is <<" ">>;                                          *)
(*  - a JSON value of a request body is tagged: [t |-> "str", v |-> s] or  *)
(*    [t |-> "int", v |-> n]; float fields carry hundredths (70.35 is      *)
(*    7035);                                                               *)
(*  - a probability is an integer number of 1/ProbScale.                   *)
(***************************************************************************)
EXTENDS Integers, Sequences, FiniteSets, TLC

VARIABLES
    trainCsv,       \* data/processed/train.csv: NoFile or a dataset
    trainPc,        \* position of train_model
    trainRun,       \* number of training runs started
    trainModel,     \* train_model's local `model`
    trainPreproc,   \* train_model's local `preprocessor`
    modelFile,      \* models/churn_model.pkl
    preprocFile,    \* models/preprocessor.pkl
    lifespanPc,     \* position of lifespan / ChurnPredictor.__init__
    loadedModel,    \* self.model while __init__ is running
    loadError,      \* the exception lifespan caught, or NoError
    predictor,      \* app.predictor: None or the ChurnPredictor
    req,            \* per connection: the request in flight
    resp,           \* per connection: the response sent
    calls,          \* per connection: calls made into the predictor
    now,            \* the wall clock read by datetime.utcnow()
    fnIn,           \* argument of the pure function under check
    fnOut           \* its result

vars == <<trainCsv, trainPc, trainRun, trainModel, trainPreproc, modelFile,
          preprocFile, lifespanPc, loadedModel, loadError, predictor,
          req, resp, calls, now, fnIn, fnOut>>

trainVars == <<trainCsv, trainPc, trainRun, trainModel, trainPreproc,
               modelFile, preprocFile>>
loadVars == <<lifespanPc, loadedModel, loadError, predictor>>
reqVars == <<req, resp, calls, now>>
fnVars == <<fnIn, fnOut>>

----------------------------------------------------------------------------
(* Bounds *)

MaxRuns == 2
MaxConn == 2
MaxBatchIn == 2
MaxClock == 1

----------------------------------------------------------------------------
(* Values *)

None == [none |-> TRUE]
NoFile == [file |-> "absent"]
Partial == [file |-> "partial"]
NoError == [error |-> "none"]

\* the file exists and holds a whole pickle
IsFile(f) == f # NoFile /\ f # Partial

StrV(s) == [t |-> "str", v |-> s]
IntV(n) == [t |-> "int", v |-> n]

Whitespace == {" ", "\t"}

RECURSIVE lstrip(_)
lstrip(s) ==
    IF s = <<>> THEN s
    ELSE IF Head(s) \in Whitespace THEN lstrip(Tail(s)) ELSE s

RECURSIVE rstrip(_)
rstrip(s) ==
    IF s = <<>> THEN s
    ELSE IF s[Len(s)] \in Whitespace THEN rstrip(SubSeq(s, 1, Len(s) - 1))
         ELSE s

strip(s) == rstrip(lstrip(s))

Range(f) == {f[x] : x \in DOMAIN f}

RECURSIVE SumSeq(_)
SumSeq(s) == IF s = <<>> THEN 0 ELSE Head(s) + SumSeq(Tail(s))

----------------------------------------------------------------------------
(* Request schema: CustomerFeatures and PredictionRequest *)

CategoricalFields ==
    {"gender", "Partner", "Dependents", "PhoneService", "MultipleLines",
     "InternetService", "OnlineSecurity", "OnlineBackup", "DeviceProtection",
     "TechSupport", "StreamingTV", "StreamingMovies", "Contract",
     "PaperlessBilling", "PaymentMethod"}

IntFields == {"SeniorCitizen", "tenure"}

FloatFields == {"MonthlyCharges", "TotalCharges"}

CustomerFields == CategoricalFields \cup IntFields \cup FloatFields

\* validate_categorical without the strip: only `not v`
validate_categorical_NoStrip(v) == v # <<>>

\* @field_validator(...) validate_categorical: `not v or v.strip() == ""`
validate_categorical(v) == ~(v = <<>> \/ strip(v) = <<>>)

\* one declared field of CustomerFeatures against the value sent for it
FieldValid(f, val) ==
    IF f \in CategoricalFields
    THEN val.t = "str" /\ validate_categorical(val.v)
    ELSE IF f = "SeniorCitizen" THEN val.t = "int" /\ val.v >= 0 /\ val.v =< 1
    ELSE val.t = "int" /\ val.v >= 0

\* the fields pydantic reports: required and absent, or present and invalid
FieldErrors(rec) ==
    {f \in CustomerFields : f \notin DOMAIN rec \/ ~FieldValid(f, rec[f])}

CustomerValid(rec) == FieldErrors(rec) = {}

MIN_LENGTH == 1
MAX_LENGTH == 1000

\* PredictionRequest with the upper bound off by one
PredictionRequestValid_OffByOne(body) ==
    /\ "customers" \in DOMAIN body
    /\ Len(body.customers) >= 1
    /\ Len(body.customers) =< 1001
    /\ \A i \in 1..Len(body.customers) : CustomerValid(body.customers[i])

\* PredictionRequest: customers is required, a list of 1..1000 valid items
PredictionRequestValid(body) ==
    /\ "customers" \in DOMAIN body
    /\ Len(body.customers) >= MIN_LENGTH
    /\ Len(body.customers) =< MAX_LENGTH
    /\ \A i \in 1..Len(body.customers) : CustomerValid(body.customers[i])

\* customer.dict(): the declared fields only, as Python values
dict(rec) == [f \in CustomerFields |-> rec[f].v]

----------------------------------------------------------------------------
(* Python values: order on str, results of calls that may raise *)

\* the tokens in use, in code point order; no token is a prefix of another
TokenOrder ==
    <<"\t", " ", "0-1yr", "1-2yr", "2-4yr", "4+yr", "DSL", "Electronic",
      "Female", "Fiber", "Mailed", "Male", "Month-to-month", "No", "One",
      "Three", "Two", "Yes", "c1", "c2", "c3", "check", "nan", "optic",
      "year">>

TokenRank(t) == CHOOSE i \in 1..Len(TokenOrder) : TokenOrder[i] = t

RECURSIVE StrLess(_, _)
StrLess(a, b) ==
    IF b = <<>> THEN FALSE
    ELSE IF a = <<>> THEN TRUE
    ELSE IF Head(a) = Head(b) THEN StrLess(Tail(a), Tail(b))
    ELSE TokenRank(Head(a)) < TokenRank(Head(b))

\* sorted(set of str)
RECURSIVE SortedStrs(_)
SortedStrs(S) ==
    IF S = {} THEN <<>>
    ELSE LET m == CHOOSE x \in S : \A y \in S \ {x} : StrLess(x, y)
         IN <<m>> \o SortedStrs(S \ {m})

Ok(v) == [ok |-> TRUE, val |-> v]
Raise(type, msg) == [ok |-> FALSE, exc |-> [type |-> type, msg |-> msg]]

\* float NaN as pandas writes and reads it in an object column
NaN == <<"nan">>

\* floor of the square root, by bisection on lo..hi
RECURSIVE ISqrtIn(_, _, _)
ISqrtIn(n, lo, hi) ==
    IF lo >= hi THEN lo
    ELSE LET mid == (lo + hi + 1) \div 2
         IN IF mid * mid =< n THEN ISqrtIn(n, mid, hi)
            ELSE ISqrtIn(n, lo, mid - 1)

ISqrt(n) == ISqrtIn(n, 0, 40000)

\* SelectSeq with an index-free filter over column names
FilterSeq(s, S) == SelectSeq(s, LAMBDA x : x \in S)

----------------------------------------------------------------------------
(* ChurnPreprocessor (preprocessing.py)                                    *)
(* A DataFrame is [columns, dtype, rows]: the ordered column names, the    *)
(* dtype of each and the rows as functions from column name to value.      *)
(* Floats of the scaler are fixed point with FP units per 1.0.             *)

FP == 10

\* X.select_dtypes(include=[...]).columns.tolist()
select_dtypes(X, include) ==
    SelectSeq(X.columns, LAMBDA c : X.dtype[c] \in include)

Column(X, c) == [i \in 1..Len(X.rows) |-> X.rows[i][c]]

\* StandardScaler.fit on one column: mean_ and scale_ (a zero std counts 1.0)
ScalerFit(col) ==
    LET n == Len(col)
        mean == (SumSeq(col) * FP) \div n
        dev == [i \in 1..n |-> (col[i] * FP - mean) * (col[i] * FP - mean)]
        std == ISqrt(SumSeq(dev) \div n)
    IN [mean |-> mean, scale |-> IF std = 0 THEN FP ELSE std]

\* StandardScaler.transform on one value
ScalerTransform(p, v) == ((v * FP - p.mean) * FP) \div p.scale

\* the distinct values of a column in the order of their first appearance
RECURSIVE Unique(_)
Unique(col) ==
    IF col = <<>> THEN <<>>
    ELSE LET front == SubSeq(col, 1, Len(col) - 1)
             last == col[Len(col)]
         IN IF last \in Range(front) THEN Unique(front)
            ELSE Append(Unique(front), last)

\* OneHotEncoder.fit that keeps the categories in the order they are seen
EncoderFit_FirstSeen(col) == Unique(col)

\* OneHotEncoder.fit on one column: categories_ = sorted unique values
EncoderFit(col) == SortedStrs(Range(col))

\* OneHotEncoder.transform that encodes an unknown value as the last category
EncoderTransform_UnknownAsLast(cats, v) ==
    [j \in 1..(Len(cats) - 1) |->
        IF cats[j + 1] = v \/ (j = Len(cats) - 1 /\ v \notin Range(cats))
        THEN 1 ELSE 0]

\* OneHotEncoder.transform that gives a known value its own column and an
\* unknown value an extra one
EncoderTransform_OwnColumn(cats, v) ==
    IF v \in Range(cats)
    THEN [j \in 1..(Len(cats) - 1) |-> IF cats[j + 1] = v THEN 1 ELSE 0]
    ELSE [j \in 1..Len(cats) |-> IF j = Len(cats) THEN 1 ELSE 0]

\* OneHotEncoder(drop='first', handle_unknown='ignore').transform on one
\* value: one output per category but the first, all zero when unknown
EncoderTransform(cats, v) ==
    [j \in 1..(Len(cats) - 1) |-> IF cats[j + 1] = v THEN 1 ELSE 0]

\* ChurnPreprocessor.__init__
NewPreprocessor == [column_transformer |-> None, feature_names |-> None]

\* ChurnPreprocessor._get_feature_names
RECURSIVE CatFeatureNames(_, _)
CatFeatureNames(features, cats) ==
    IF features = <<>> THEN <<>>
    ELSE [j \in 1..(Len(cats[Head(features)]) - 1) |->
             <<Head(features), cats[Head(features)][j + 1]>>]
         \o CatFeatureNames(Tail(features), cats)

get_feature_names(ct) == ct.num \o CatFeatureNames(ct.cat, ct.categories)

\* ChurnPreprocessor.fit
fit(X) ==
    LET numeric_features ==
            FilterSeq(select_dtypes(X, {"int64", "float64"}),
                      Range(X.columns) \ {"customerID"})
        categorical_features ==
            FilterSeq(select_dtypes(X, {"object"}),
                      Range(X.columns) \ {"customerID"})
        ct == [num |-> numeric_features,
               cat |-> categorical_features,
               scaler |-> [c \in Range(numeric_features) |->
                              ScalerFit(Column(X, c))],
               categories |-> [c \in Range(categorical_features) |->
                                  EncoderFit(Column(X, c))]]
    IN [column_transformer |-> ct, feature_names |-> get_feature_names(ct)]

RECURSIVE CatBlocks(_, _, _)
CatBlocks(features, cats, row) ==
    IF features = <<>> THEN <<>>
    ELSE EncoderTransform(cats[Head(features)], row[Head(features)])
         \o CatBlocks(Tail(features), cats, row)

\* ColumnTransformer.transform on one row: scaled numerics, then the blocks
TransformRow(ct, row) ==
    [i \in 1..Len(ct.num) |-> ScalerTransform(ct.scaler[ct.num[i]],
                                              row[ct.num[i]])]
    \o CatBlocks(ct.cat, ct.categories, row)

\* transform without the check for a fitted transformer: an object that was
\* never fitted hands the records back as they are
transform_NoFitCheck(self, X) ==
    IF self.column_transformer = None
    THEN Ok([i \in 1..Len(X.rows) |-> <<>>])
    ELSE LET ct == self.column_transformer
             diff == (Range(ct.num) \cup Range(ct.cat)) \ Range(X.columns)
         IN IF diff # {}
            THEN Raise("ValueError", <<"columns are missing: ", diff>>)
            ELSE Ok([i \in 1..Len(X.rows) |-> TransformRow(ct, X.rows[i])])

\* ChurnPreprocessor.transform
transform(self, X) ==
    IF self.column_transformer = None
    THEN Raise("ValueError", <<"Preprocessor must be fitted before transform">>)
    ELSE LET ct == self.column_transformer
             diff == (Range(ct.num) \cup Range(ct.cat)) \ Range(X.columns)
         IN IF diff # {}
            THEN Raise("ValueError", <<"columns are missing: ", diff>>)
            ELSE Ok([i \in 1..Len(X.rows) |-> TransformRow(ct, X.rows[i])])

\* number of output columns of a fitted transformer
OutputWidth(ct) ==
    Len(ct.num) + SumSeq([i \in 1..Len(ct.cat) |->
                             Len(ct.categories[ct.cat[i]]) - 1])

----------------------------------------------------------------------------
(* ChurnModel (model.py): the classifier is a black box; its fitted        *)
(* parameters are the hyperparameters it was built with and the width of   *)
(* the matrix it was fitted on                                             *)

ProbScale == 100000

\* the probabilities a fitted classifier returns, in 1/ProbScale
ProbLevels == <<0, 29999, 30000, 45000, 50000, 50001, 59999, 60000, 100000>>

ModelTypes == {"random_forest", "gradient_boosting", "logistic_regression"}

\* ChurnModel.__init__ / _create_model
create_model(model_params) ==
    IF model_params.model_type \in ModelTypes
    THEN Ok([model_type |-> model_params.model_type,
             model |-> [params |-> model_params.params,
                        n_features_in |-> -1]])
    ELSE Raise("ValueError", <<"Unknown model type: ",
                               model_params.model_type>>)

\* ChurnModel.fit: the estimator remembers the width of X_train
model_fit(self, X_train) ==
    [self EXCEPT !.model.n_features_in = Len(X_train[1])]

RECURSIVE Weighted(_, _)
Weighted(row, i) ==
    IF i > Len(row) THEN 0 ELSE i * row[i] + Weighted(row, i + 1)

\* the estimator's probability of class 1 for one row
RowProba(self, row) ==
    ProbLevels[((self.model.params + Weighted(row, 1)) % Len(ProbLevels)) + 1]

\* the estimator's input check: every row has the fitted width
WidthError(self, X) ==
    Raise("ValueError", <<"X has ", Len(X[1]), " features, expecting ",
                          self.model.n_features_in>>)

\* ChurnModel.predict_proba(X)[:, 1]
predict_proba(self, X) ==
    IF Len(X[1]) # self.model.n_features_in THEN WidthError(self, X)
    ELSE Ok([i \in 1..Len(X) |-> RowProba(self, X[i])])

\* ChurnModel.predict: class 1 when its probability is the larger one
model_predict(self, X) ==
    IF Len(X[1]) # self.model.n_features_in THEN WidthError(self, X)
    ELSE Ok([i \in 1..Len(X) |->
                IF 2 * RowProba(self, X[i]) > ProbScale THEN 1 ELSE 0])

----------------------------------------------------------------------------
(* ChurnPredictor (predict.py) *)

\* the column order of pd.DataFrame([customer.dict(), ...])
CustomerOrder ==
    <<"gender", "SeniorCitizen", "Partner", "Dependents", "tenure",
      "PhoneService", "MultipleLines", "InternetService", "OnlineSecurity",
      "OnlineBackup", "DeviceProtection", "TechSupport", "StreamingTV",
      "StreamingMovies", "Contract", "PaperlessBilling", "PaymentMethod",
      "MonthlyCharges", "TotalCharges">>

CustomerDtype ==
    [c \in CustomerFields |->
        IF c \in CategoricalFields THEN "object"
        ELSE IF c \in IntFields THEN "int64" ELSE "float64"]

\* pd.DataFrame(customers_data)
DataFrame(customers_data) ==
    [columns |-> CustomerOrder, dtype |-> CustomerDtype,
     rows |-> customers_data]

\* ChurnPredictor.predict; the second component is the calls it made
ChurnPredictor_predict(self, X) ==
    LET X_transformed == transform(self.preprocessor, X)
    IN IF ~X_transformed.ok
       THEN <<X_transformed, <<"transform">>>>
       ELSE LET predictions == model_predict(self.model, X_transformed.val)
            IN IF ~predictions.ok
               THEN <<predictions, <<"transform", "predict">>>>
               ELSE LET probabilities ==
                            predict_proba(self.model, X_transformed.val)
                    IN <<IF ~probabilities.ok THEN probabilities
                         ELSE Ok([prediction |-> predictions.val,
                                  churn_probability |-> probabilities.val]),
                         <<"transform", "predict", "predict_proba">>>>

\* ChurnPredictor.predict_single
ChurnPredictor_predict_single(self, customer_data) ==
    LET r == ChurnPredictor_predict(self, DataFrame(<<customer_data>>))
        results == r[1]
    IN <<IF ~results.ok THEN results
         ELSE Ok([will_churn |-> results.val.prediction[1] = 1,
                  churn_probability |-> results.val.churn_probability[1]]),
         r[2]>>

----------------------------------------------------------------------------
(* Response helpers (api/app.py) *)

\* round(p, 4) that rounds every value up to the next multiple of 0.0001
round4_Up(p) == ((p + 10) \div 10) * 10

\* round(p, 4); no level of ProbLevels lies half way between two results
round4(p) == ((p + 5) \div 10) * 10

\* _get_risk_level with the thresholds compared by <=
get_risk_level_Inclusive(probability) ==
    IF probability =< 30000 THEN "low"
    ELSE IF probability =< 60000 THEN "medium"
    ELSE "high"

\* _get_risk_level: 0.3 and 0.6 in 1/ProbScale
get_risk_level(probability) ==
    IF probability < 30000 THEN "low"
    ELSE IF probability < 60000 THEN "medium"
    ELSE "high"

HTTPException(status_code, detail) ==
    [status |-> status_code, detail |-> detail]

\* `predict` that numbers the entries of its response from 1
PredictBody_OneBased(self, request, t) ==
    LET customers_data ==
            [i \in 1..Len(request.customers) |-> dict(request.customers[i])]
        r == ChurnPredictor_predict(self, DataFrame(customers_data))
        results == r[1]
    IN <<IF ~results.ok
         THEN HTTPException(500, <<"Prediction failed: ", results.exc.msg>>)
         ELSE [status |-> 200,
               body |-> [predictions |->
                            [i \in 1..Len(results.val.prediction) |->
                               [customer_index |-> i,
                                will_churn |-> results.val.prediction[i] = 1,
                                churn_probability |->
                                    round4(results.val.churn_probability[i]),
                                risk_level |->
                                    get_risk_level(
                                        results.val.churn_probability[i])]],
                         model_version |-> "1.0.0",
                         timestamp |-> t]],
         r[2]>>

\* the body of `predict` after the readiness check
PredictBody(self, request, t) ==
    LET customers_data ==
            [i \in 1..Len(request.customers) |-> dict(request.customers[i])]
        r == ChurnPredictor_predict(self, DataFrame(customers_data))
        results == r[1]
    IN <<IF ~results.ok
         THEN HTTPException(500, <<"Prediction failed: ", results.exc.msg>>)
         ELSE [status |-> 200,
               body |-> [predictions |->
                            [i \in 1..Len(results.val.prediction) |->
                               [customer_index |-> i - 1,
                                will_churn |-> results.val.prediction[i] = 1,
                                churn_probability |->
                                    round4(results.val.churn_probability[i]),
                                risk_level |->
                                    get_risk_level(
                                        results.val.churn_probability[i])]],
                         model_version |-> "1.0.0",
                         timestamp |-> t]],
         r[2]>>

\* predict_single that rounds the probability before it takes the risk level
PredictSingleBody_RoundFirst(self, customer, t) ==
    LET r == ChurnPredictor_predict_single(self, dict(customer))
        result == r[1]
    IN <<IF ~result.ok
         THEN HTTPException(500, <<"Prediction failed: ", result.exc.msg>>)
         ELSE [status |-> 200,
               body |-> [will_churn |-> result.val.will_churn,
                         risk_level |->
                             get_risk_level(
                                 round4(result.val.churn_probability)),
                         churn_probability |->
                             round4(result.val.churn_probability),
                         timestamp |-> t]],
         r[2]>>

\* the body of `predict_single` after the readiness check
PredictSingleBody(self, customer, t) ==
    LET r == ChurnPredictor_predict_single(self, dict(customer))
        result == r[1]
    IN <<IF ~result.ok
         THEN HTTPException(500, <<"Prediction failed: ", result.exc.msg>>)
         ELSE [status |-> 200,
               body |-> [will_churn |-> result.val.will_churn,
                         risk_level |->
                             get_risk_level(result.val.churn_probability),
                         churn_probability |->
                             round4(result.val.churn_probability),
                         timestamp |-> t]],
         r[2]>>

----------------------------------------------------------------------------
(* Data pipeline (pipeline.py, data/) *)

Yes == <<"Yes">>
No == <<"No">>

RawOrder == <<"customerID">> \o CustomerOrder \o <<"Churn">>

RawRow(id, gender, senior, tenure, internet, contract, payment, monthly, total, churn) ==
    [c \in Range(RawOrder) |->
        CASE c = "customerID" -> <<id>>
          [] c = "gender" -> <<gender>>
          [] c = "SeniorCitizen" -> senior
          [] c = "tenure" -> tenure
          [] c = "InternetService" -> internet
          [] c = "Contract" -> contract
          [] c = "PaymentMethod" -> <<payment, " ", "check">>
          [] c = "MonthlyCharges" -> monthly
          [] c = "TotalCharges" -> total
          [] c = "Churn" -> churn
          [] c \in {"Partner", "PhoneService", "OnlineBackup", "StreamingTV",
                    "PaperlessBilling"} -> Yes
          [] OTHER -> No]

RawDtype ==
    [c \in Range(RawOrder) |->
        IF c \in IntFields THEN "int64"
        ELSE IF c \in FloatFields THEN "float64" ELSE "object"]

\* a raw file with the full Telco schema
RawTelco ==
    [columns |-> RawOrder, dtype |-> RawDtype,
     rows |-> <<RawRow("c1", "Female", 0, 12, <<"Fiber", " ", "optic">>,
                       <<"Month-to-month">>, "Electronic", 70, 84, Yes),
                RawRow("c2", "Male", 1, 30, <<"DSL">>,
                       <<"One", " ", "year">>, "Mailed", 50, 150, No),
                RawRow("c3", "Female", 0, 60, <<"DSL">>,
                       <<"Two", " ", "year">>, "Mailed", 20, 120, No),
                RawRow("c1", "Male", 0, 2, <<"DSL">>,
                       <<"Month-to-month">>, "Electronic", 30, 6, Yes),
                RawRow("c2", "Female", 1, 70, <<"DSL">>,
                       <<"Two", " ", "year">>, "Mailed", 90, 190, No)>>]

\* df.drop(columns=[...])
drop(df, cols) ==
    [columns |-> FilterSeq(df.columns, Range(df.columns) \ cols),
     dtype |-> [c \in DOMAIN df.dtype \ cols |-> df.dtype[c]],
     rows |-> [i \in 1..Len(df.rows) |->
                  [c \in DOMAIN df.rows[i] \ cols |-> df.rows[i][c]]]]

\* a raw file without the tenure column
RawNoTenure == drop(RawTelco, {"tenure"})

RawDatasets == {RawTelco, RawNoTenure}

\* df[name] = values, for a new column
assign(df, name, dtype, values) ==
    [columns |-> df.columns \o <<name>>,
     dtype |-> [c \in DOMAIN df.dtype \cup {name} |->
                   IF c = name THEN dtype ELSE df.dtype[c]],
     rows |-> [i \in 1..Len(df.rows) |->
                  [c \in DOMAIN df.rows[i] \cup {name} |->
                      IF c = name THEN values[i] ELSE df.rows[i][c]]]]

\* encode_target: Yes/No to 1/0
encode_target(df) ==
    IF "Churn" \notin Range(df.columns) THEN df
    ELSE [df EXCEPT !.dtype["Churn"] = "int64",
                    !.rows = [i \in 1..Len(df.rows) |->
                                 [df.rows[i] EXCEPT !["Churn"] =
                                     IF @ = Yes THEN 1 ELSE 0]]]

\* pd.cut(tenure, bins=[0, 12, 24, 48, 72], labels=[...])
tenure_bin(t) ==
    IF t > 0 /\ t =< 12 THEN <<"0-1yr">>
    ELSE IF t > 12 /\ t =< 24 THEN <<"1-2yr">>
    ELSE IF t > 24 /\ t =< 48 THEN <<"2-4yr">>
    ELSE IF t > 48 /\ t =< 72 THEN <<"4+yr">>
    ELSE NaN

\* create_tenure_bins
create_tenure_bins(df) ==
    IF "tenure" \in Range(df.columns)
    THEN assign(df, "tenure_bin", "object",
                [i \in 1..Len(df.rows) |-> tenure_bin(df.rows[i]["tenure"])])
    ELSE df

\* create_revenue_features
create_revenue_features(df) ==
    IF "MonthlyCharges" \in Range(df.columns) /\ "tenure" \in Range(df.columns)
    THEN assign(df, "avg_monthly_charges", "float64",
                [i \in 1..Len(df.rows) |->
                    df.rows[i]["TotalCharges"]
                        \div (df.rows[i]["tenure"] + 1)])
    ELSE df

\* step 6 of run_data_pipeline
engineer_features(df) ==
    LET d1 == IF "tenure" \in Range(df.columns)
              THEN create_tenure_bins(df) ELSE df
    IN IF "MonthlyCharges" \in Range(d1.columns)
          /\ "tenure" \in Range(d1.columns)
       THEN create_revenue_features(d1) ELSE d1

\* ceil(a / b) for the split sizes
CeilDiv(a, b) == (a + b - 1) \div b

\* split_data with test_size = val_size = 0.2 and save_splits: the fixed
\* permutation of random_state = 42 is taken to put the test rows last and
\* the validation rows before them
split_and_save(df) ==
    LET n == Len(df.rows)
        n_test == CeilDiv(2 * n, 10)
        n_val == CeilDiv(2 * (n - n_test), 10)
        n_train == n - n_test - n_val
    IN [train |-> [df EXCEPT !.rows = SubSeq(df.rows, 1, n_train)],
        val |-> [df EXCEPT !.rows = SubSeq(df.rows, n_train + 1,
                                            n_train + n_val)]]

\* run_data_pipeline on clean raw data
run_data_pipeline(raw) == split_and_save(engineer_features(encode_target(raw)))

----------------------------------------------------------------------------
(* Training run (train.py).  `run` in an artifact is a history field: the  *)
(* number of the training run that produced it.                            *)

\* model_params of configs/model1.yaml; params stands for the hyperparameters
Configs ==
    {[model_type |-> "random_forest", params |-> 0],
     [model_type |-> "logistic_regression", params |-> 4],
     [model_type |-> "svm", params |-> 0]}

\* an object with the history field added
Stamp(obj, run) ==
    [f \in DOMAIN obj \cup {"run"} |-> IF f = "run" THEN run ELSE obj[f]]

\* the attributes of the pickled objects in the order they are assigned
\* (`run` is the history field)
PickleOrder ==
    <<"model_type", "model", "column_transformer", "feature_names", "run">>

\* a pickle that writes the object's own attributes but not the estimators
\* they refer to
pickle_dumps_Shallow(obj) ==
    LET attrs == FilterSeq(PickleOrder, DOMAIN obj)
    IN [pickle |-> [i \in 1..Len(attrs) |->
                       <<attrs[i],
                         IF attrs[i] \in {"model", "column_transformer"}
                         THEN None ELSE obj[attrs[i]]>>]]

\* pickle of an object: its attributes, name and value, one after the other
pickle_dumps(obj) ==
    LET attrs == FilterSeq(PickleOrder, DOMAIN obj)
    IN [pickle |-> [i \in 1..Len(attrs) |-> <<attrs[i], obj[attrs[i]]>>]]

\* the object a pickle describes: every attribute named in it, set to the
\* value written with the name
pickle_loads(file) ==
    LET s == file.pickle
    IN [a \in {s[i][1] : i \in 1..Len(s)} |->
           s[CHOOSE i \in 1..Len(s) : s[i][1] = a][2]]

\* joblib.dump(self, filepath), once the file is written out
joblib_dump(obj) == pickle_dumps(obj)

\* train_model with the preprocessor fitted a second time, on the
\* validation split, before it is handed on
TrainResult_RefitOnVal(processed, config, run) ==
    IF processed = NoFile
    THEN Raise("FileNotFoundError", <<"Training data not found">>)
    ELSE LET X_train == drop(processed.train, {"Churn"})
             X_val == drop(processed.val, {"Churn"})
             preprocessor == fit(X_train)
             X_train_transformed == transform(preprocessor, X_train)
             X_val_transformed == transform(fit(X_val), X_val)
             model == create_model(config)
         IN IF ~X_val_transformed.ok THEN X_val_transformed
            ELSE IF ~model.ok THEN model
            ELSE Ok([model |-> Stamp(model_fit(model.val,
                                                X_train_transformed.val),
                                      run),
                     preprocessor |-> Stamp(fit(X_val), run)])

\* train_model up to the end of the evaluation: the artifacts, or the error
TrainResult(processed, config, run) ==
    IF processed = NoFile
    THEN Raise("FileNotFoundError", <<"Training data not found">>)
    ELSE LET X_train == drop(processed.train, {"Churn"})
             X_val == drop(processed.val, {"Churn"})
             preprocessor == fit(X_train)
             X_train_transformed == transform(preprocessor, X_train)
             X_val_transformed == transform(preprocessor, X_val)
             model == create_model(config)
         IN IF ~X_val_transformed.ok THEN X_val_transformed
            ELSE IF ~model.ok THEN model
            ELSE Ok([model |-> Stamp(model_fit(model.val,
                                                X_train_transformed.val),
                                      run),
                     preprocessor |-> Stamp(preprocessor, run)])

\* python -m pipeline: the splits are written
RunDataPipeline(raw) ==
    /\ trainCsv' = run_data_pipeline(raw)
    /\ trainCsv' # trainCsv
    /\ UNCHANGED <<trainPc, trainRun, trainModel, trainPreproc, modelFile,
                   preprocFile>>
    /\ UNCHANGED <<loadVars, reqVars, fnVars>>

\* train_model, lines 20-143: load, preprocess, fit and evaluate
TrainFit(config) ==
    /\ trainPc = "idle"
    /\ trainRun < MaxRuns
    /\ trainRun' = trainRun + 1
    /\ LET r == TrainResult(trainCsv, config, trainRun + 1)
       IN IF r.ok
          THEN /\ trainModel' = r.val.model
               /\ trainPreproc' = r.val.preprocessor
               /\ trainPc' = "save_model"
          ELSE /\ trainPc' = "idle"
               /\ UNCHANGED <<trainModel, trainPreproc>>
    /\ UNCHANGED <<trainCsv, modelFile, preprocFile>>
    /\ UNCHANGED <<loadVars, reqVars, fnVars>>

\* model.save: joblib.dump opens the file for writing, which truncates it
SaveModelOpen ==
    /\ trainPc = "save_model"
    /\ modelFile' = Partial
    /\ trainPc' = "write_model"
    /\ UNCHANGED <<trainCsv, trainRun, trainModel, trainPreproc, preprocFile>>
    /\ UNCHANGED <<loadVars, reqVars, fnVars>>

\* model.save: the pickle is written out
SaveModelClose ==
    /\ trainPc = "write_model"
    /\ modelFile' = joblib_dump(trainModel)
    /\ trainPc' = "save_preproc"
    /\ UNCHANGED <<trainCsv, trainRun, trainModel, trainPreproc, preprocFile>>
    /\ UNCHANGED <<loadVars, reqVars, fnVars>>

\* preprocessor.save, opening the file
SavePreprocOpen ==
    /\ trainPc = "save_preproc"
    /\ preprocFile' = Partial
    /\ trainPc' = "write_preproc"
    /\ UNCHANGED <<trainCsv, trainRun, trainModel, trainPreproc, modelFile>>
    /\ UNCHANGED <<loadVars, reqVars, fnVars>>

\* preprocessor.save, the pickle written; the run is over
SavePreprocClose ==
    /\ trainPc = "write_preproc"
    /\ preprocFile' = joblib_dump(trainPreproc)
    /\ trainPc' = "idle"
    /\ UNCHANGED <<trainCsv, trainRun, trainModel, trainPreproc, modelFile>>
    /\ UNCHANGED <<loadVars, reqVars, fnVars>>

----------------------------------------------------------------------------
(* Startup of the serving process: lifespan and ChurnPredictor.__init__ *)

\* an except branch that keeps the object under construction when its model
\* was already restored
LoadFailed_KeepPartial(exc) ==
    /\ predictor' = IF loadedModel = None THEN None
                    ELSE [model |-> loadedModel, preprocessor |-> None]
    /\ loadError' = exc
    /\ lifespanPc' = "serving"
    /\ UNCHANGED loadedModel

\* the except branch of lifespan
LoadFailed(exc) ==
    /\ predictor' = None
    /\ loadError' = exc
    /\ lifespanPc' = "serving"
    /\ UNCHANGED loadedModel

\* lifespan is entered: predictor = ChurnPredictor() begins
LifespanStart ==
    /\ lifespanPc = "unloaded"
    /\ lifespanPc' = "check_model"
    /\ UNCHANGED <<loadedModel, loadError, predictor>>
    /\ UNCHANGED <<trainVars, reqVars, fnVars>>

\* __init__ without the check that the model file exists
CheckModelExists_NoCheck ==
    /\ lifespanPc = "check_model"
    /\ lifespanPc' = "check_preproc"
    /\ UNCHANGED <<loadedModel, loadError, predictor>>
    /\ UNCHANGED <<trainVars, reqVars, fnVars>>

\* if not model_file.exists(): raise FileNotFoundError
CheckModelExists ==
    /\ lifespanPc = "check_model"
    /\ IF modelFile = NoFile
       THEN LoadFailed([type |-> "FileNotFoundError",
                        msg |-> <<"Model not found">>])
       ELSE /\ lifespanPc' = "check_preproc"
            /\ UNCHANGED <<loadedModel, loadError, predictor>>
    /\ UNCHANGED <<trainVars, reqVars, fnVars>>

\* if not preprocessor_file.exists(): raise FileNotFoundError
CheckPreprocExists ==
    /\ lifespanPc = "check_preproc"
    /\ IF preprocFile = NoFile
       THEN LoadFailed([type |-> "FileNotFoundError",
                        msg |-> <<"Preprocessor not found">>])
       ELSE /\ lifespanPc' = "load_model"
            /\ UNCHANGED <<loadedModel, loadError, predictor>>
    /\ UNCHANGED <<trainVars, reqVars, fnVars>>

\* joblib.load on a file: the object its pickle describes, or the error of a
\* truncated pickle
joblib_load(file) ==
    IF file = NoFile THEN Raise("FileNotFoundError", <<"No such file">>)
    ELSE IF file = Partial THEN Raise("EOFError", <<"Ran out of input">>)
    ELSE Ok(pickle_loads(file))

\* self.model = ChurnModel.load(model_file)
LoadModel ==
    /\ lifespanPc = "load_model"
    /\ LET m == joblib_load(modelFile)
       IN IF m.ok
          THEN /\ loadedModel' = m.val
               /\ lifespanPc' = "load_preproc"
               /\ UNCHANGED <<loadError, predictor>>
          ELSE LoadFailed(m.exc)
    /\ UNCHANGED <<trainVars, reqVars, fnVars>>

\* self.preprocessor = ChurnPreprocessor.load(preprocessor_file); the
\* constructor returns and lifespan publishes the object
LoadPreprocessor ==
    /\ lifespanPc = "load_preproc"
    /\ LET p == joblib_load(preprocFile)
       IN IF p.ok
          THEN /\ predictor' = [model |-> loadedModel, preprocessor |-> p.val]
               /\ lifespanPc' = "serving"
               /\ UNCHANGED <<loadedModel, loadError>>
          ELSE LoadFailed(p.exc)
    /\ UNCHANGED <<trainVars, reqVars, fnVars>>

\* the state of the Predictor in the words of the state machine
PredictorState ==
    IF lifespanPc = "unloaded" THEN "Unloaded"
    ELSE IF lifespanPc # "serving" THEN "Loading"
    ELSE IF predictor = None THEN "Failed" ELSE "Ready"

----------------------------------------------------------------------------
(* Requests (api/app.py) *)

Idle == [pc |-> "idle", endpoint |-> "", body |-> None]

Conns == 1..MaxConn

\* a request reaches the server, which accepts connections once the
\* startup part of lifespan has run
Receive(c, r) ==
    /\ lifespanPc = "serving"
    /\ req[c].pc = "idle"
    /\ req' = [req EXCEPT ![c] = [pc |-> "received", endpoint |-> r.endpoint,
                                   body |-> r.body]]
    /\ UNCHANGED <<resp, calls, now>>
    /\ UNCHANGED <<trainVars, loadVars, fnVars>>

\* the body is parsed into the handler's parameter type
BodyValid(endpoint, body) ==
    IF endpoint = "predict" THEN PredictionRequestValid(body)
    ELSE IF endpoint = "predict_single" THEN CustomerValid(body)
    ELSE TRUE

\* the parameter of the handler is built before the handler runs; a body
\* that does not validate is answered 422 and the handler is not called
Validate(c) ==
    /\ req[c].pc = "received"
    /\ IF BodyValid(req[c].endpoint, req[c].body)
       THEN /\ req' = [req EXCEPT ![c].pc = "validated"]
            /\ UNCHANGED resp
       ELSE /\ req' = [req EXCEPT ![c].pc = "done"]
            /\ resp' = [resp EXCEPT ![c] =
                            [status |-> 422, detail |-> <<"validation error">>]]
    /\ UNCHANGED <<calls, now>>
    /\ UNCHANGED <<trainVars, loadVars, fnVars>>

\* `predict` without its readiness check: predictor.predict raises on None
\* inside the try block
PredictOutcome_NoGate(p, request, t) ==
    IF p = None
    THEN <<HTTPException(500, <<"Prediction failed: ",
               <<"'NoneType' object has no attribute 'predict'">>>>), <<>>>>
    ELSE PredictBody(p, request, t)

\* what `predict` answers and the calls it makes into the predictor
PredictOutcome(p, request, t) ==
    IF p = None
    THEN <<HTTPException(503,
               <<"Model not loaded. Please check service health.">>), <<>>>>
    ELSE PredictBody(p, request, t)

\* `predict` that loads the predictor itself when it finds none
predict_Reload(c) ==
    /\ req[c].pc = "validated"
    /\ req[c].endpoint = "predict"
    /\ LET p == IF predictor = None /\ IsFile(modelFile) /\ IsFile(preprocFile)
                THEN [model |-> joblib_load(modelFile).val,
                      preprocessor |-> joblib_load(preprocFile).val]
                ELSE predictor
           r == PredictOutcome(p, req[c].body, now)
       IN /\ resp' = [resp EXCEPT ![c] = r[1]]
          /\ calls' = [calls EXCEPT ![c] = r[2]]
          /\ predictor' = p
    /\ req' = [req EXCEPT ![c].pc = "done"]
    /\ UNCHANGED <<now, lifespanPc, loadedModel, loadError>>
    /\ UNCHANGED <<trainVars, fnVars>>

\* `predict` that drops the predictor when a prediction fails
predict_ResetOnError(c) ==
    /\ req[c].pc = "validated"
    /\ req[c].endpoint = "predict"
    /\ LET r == PredictOutcome(predictor, req[c].body, now)
       IN /\ resp' = [resp EXCEPT ![c] = r[1]]
          /\ calls' = [calls EXCEPT ![c] = r[2]]
          /\ predictor' = IF r[1].status = 500 THEN None ELSE predictor
    /\ req' = [req EXCEPT ![c].pc = "done"]
    /\ UNCHANGED <<now, lifespanPc, loadedModel, loadError>>
    /\ UNCHANGED <<trainVars, fnVars>>

\* POST /predict
predict(c) ==
    /\ req[c].pc = "validated"
    /\ req[c].endpoint = "predict"
    /\ LET r == PredictOutcome(predictor, req[c].body, now)
       IN /\ resp' = [resp EXCEPT ![c] = r[1]]
          /\ calls' = [calls EXCEPT ![c] = r[2]]
    /\ req' = [req EXCEPT ![c].pc = "done"]
    /\ UNCHANGED now
    /\ UNCHANGED <<trainVars, loadVars, fnVars>>

\* what `predict_single` answers and the calls it makes into the predictor
PredictSingleOutcome(p, customer, t) ==
    IF p = None
    THEN <<HTTPException(503, <<"Model not loaded">>), <<>>>>
    ELSE PredictSingleBody(p, customer, t)

\* POST /predict/single
predict_single(c) ==
    /\ req[c].pc = "validated"
    /\ req[c].endpoint = "predict_single"
    /\ LET r == PredictSingleOutcome(predictor, req[c].body, now)
       IN /\ resp' = [resp EXCEPT ![c] = r[1]]
          /\ calls' = [calls EXCEPT ![c] = r[2]]
    /\ req' = [req EXCEPT ![c].pc = "done"]
    /\ UNCHANGED now
    /\ UNCHANGED <<trainVars, loadVars, fnVars>>

\* GET /health
health_check(c) ==
    /\ req[c].pc = "validated"
    /\ req[c].endpoint = "health"
    /\ resp' = [resp EXCEPT ![c] =
                    [status |-> 200,
                     body |-> [status |-> IF predictor # None THEN "healthy"
                                          ELSE "unhealthy",
                               model_loaded |-> predictor # None,
                               timestamp |-> now,
                               version |-> "1.0.0"]]]
    /\ req' = [req EXCEPT ![c].pc = "done"]
    /\ UNCHANGED <<calls, now>>
    /\ UNCHANGED <<trainVars, loadVars, fnVars>>

\* /ready that answers 200 whatever the predictor
readiness_check_AlwaysReady(c) ==
    /\ req[c].pc = "validated"
    /\ req[c].endpoint = "ready"
    /\ resp' = [resp EXCEPT ![c] =
                    [status |-> 200,
                     body |-> [status |-> "ready", timestamp |-> now]]]
    /\ req' = [req EXCEPT ![c].pc = "done"]
    /\ UNCHANGED <<calls, now>>
    /\ UNCHANGED <<trainVars, loadVars, fnVars>>

\* GET /ready
readiness_check(c) ==
    /\ req[c].pc = "validated"
    /\ req[c].endpoint = "ready"
    /\ resp' = [resp EXCEPT ![c] =
                    IF predictor = None
                    THEN HTTPException(503, <<"Model not loaded">>)
                    ELSE [status |-> 200,
                          body |-> [status |-> "ready", timestamp |-> now]]]
    /\ req' = [req EXCEPT ![c].pc = "done"]
    /\ UNCHANGED <<calls, now>>
    /\ UNCHANGED <<trainVars, loadVars, fnVars>>

\* time passes
Tick ==
    /\ now < MaxClock
    /\ now' = now + 1
    /\ UNCHANGED <<req, resp, calls>>
    /\ UNCHANGED <<trainVars, loadVars, fnVars>>

----------------------------------------------------------------------------
(* Inputs *)

\* the example of CustomerFeatures.model_config with two fields chosen
Customer(gender, contract) ==
    [f \in CustomerFields |->
        CASE f = "gender" -> StrV(gender)
          [] f = "Contract" -> StrV(contract)
          [] f = "SeniorCitizen" -> IntV(0)
          [] f = "tenure" -> IntV(12)
          [] f = "MonthlyCharges" -> IntV(70)
          [] f = "TotalCharges" -> IntV(840)
          [] f = "InternetService" -> StrV(<<"Fiber", " ", "optic">>)
          [] f = "PaymentMethod" -> StrV(<<"Electronic", " ", "check">>)
          [] f \in {"Partner", "PhoneService", "OnlineBackup", "StreamingTV",
                    "PaperlessBilling"} -> StrV(Yes)
          [] OTHER -> StrV(No)]

BaseCustomer == Customer(<<"Female">>, <<"Month-to-month">>)
AltCustomer == Customer(<<"Male">>, <<"Two", " ", "year">>)
UnseenCustomer == Customer(<<"Female">>, <<"Three", " ", "year">>)

\* rec without the field f
Without(rec, f) == [g \in DOMAIN rec \ {f} |-> rec[g]]

\* rec with the field f set to val
With(rec, f, val) == [g \in DOMAIN rec \cup {f} |-> IF g = f THEN val ELSE rec[g]]

\* customers that do not validate: a field absent, a categorical field
\* empty or blank or not a string, a number out of range or not a number
InvalidCustomers ==
    {Without(BaseCustomer, f) : f \in CustomerFields}
    \cup {With(BaseCustomer, f, StrV(v)) :
             f \in CategoricalFields, v \in {<<>>, <<" ">>, <<"\t", " ">>}}
    \cup {With(BaseCustomer, f, IntV(1)) : f \in CategoricalFields}
    \cup {With(BaseCustomer, f, IntV(-1)) : f \in IntFields \cup FloatFields}
    \cup {With(BaseCustomer, f, StrV(Yes)) : f \in IntFields \cup FloatFields}
    \cup {With(BaseCustomer, "SeniorCitizen", IntV(2))}

ValidCustomers ==
    {BaseCustomer, AltCustomer, UnseenCustomer,
     With(BaseCustomer, "customerID", StrV(<<"c1">>)),
     With(BaseCustomer, "gender", StrV(<<" ", "Male">>))}

BatchCustomers ==
    {BaseCustomer, AltCustomer, Without(BaseCustomer, "Contract"),
     With(BaseCustomer, "gender", StrV(<<" ">>))}

RECURSIVE SeqsUpTo(_, _)
SeqsUpTo(S, n) ==
    IF n = 0 THEN {<<>>}
    ELSE LET shorter == SeqsUpTo(S, n - 1)
         IN shorter \cup {Append(q, x) : q \in shorter, x \in S}

Repeat(x, n) == [i \in 1..n |-> x]

Request(endpoint, body) == [endpoint |-> endpoint, body |-> body]

\* the requests of the serving specification
SmallRequests ==
    {Request("predict", [customers |-> <<AltCustomer, UnseenCustomer>>]),
     Request("predict", [customers |-> <<>>]),
     Request("predict_single", BaseCustomer),
     Request("health", None),
     Request("ready", None)}

\* the requests of the validation specification
WideRequests ==
    {Request("predict", [customers |-> q]) :
        q \in SeqsUpTo(BatchCustomers, MaxBatchIn)}
    \cup {Request("predict", [customers |-> Repeat(BaseCustomer, n)]) :
             n \in {MAX_LENGTH - 1, MAX_LENGTH, MAX_LENGTH + 1}}
    \cup {Request("predict", [customer |-> <<BaseCustomer>>])}
    \cup {Request("predict_single", r) :
             r \in ValidCustomers \cup InvalidCustomers}
    \cup {Request("health", None), Request("ready", None)}

----------------------------------------------------------------------------
(* Specifications *)

ValidConfigs == {cfg \in Configs : cfg.model_type \in ModelTypes}

\* what the training runs can leave in models/
TrainingOutputs ==
    {TrainResult(run_data_pipeline(raw), cfg, run).val :
        raw \in RawDatasets, cfg \in ValidConfigs, run \in 1..MaxRuns}

\* the contents of models/ that sequential training runs can produce: the
\* model is written first, then the preprocessor
DeployedFiles(m, p) ==
    /\ m \in {NoFile, Partial}
             \cup {joblib_dump(o.model) : o \in TrainingOutputs}
    /\ p \in {NoFile, Partial}
             \cup {joblib_dump(o.preprocessor) : o \in TrainingOutputs}
    /\ m = NoFile => p = NoFile
    /\ m = Partial => p = NoFile \/ (IsFile(p) /\ pickle_loads(p).run < MaxRuns)
    /\ p = Partial => IsFile(m)
    /\ IsFile(m) /\ IsFile(p) =>
          \/ pickle_loads(p).run < pickle_loads(m).run
          \/ [model |-> pickle_loads(m), preprocessor |-> pickle_loads(p)]
                \in TrainingOutputs

\* the artifacts of training run `run` on the raw file `raw`
Trained(raw, model_type, params, run) ==
    TrainResult(run_data_pipeline(raw),
                [model_type |-> model_type, params |-> params], run).val

\* the contents of models/ the serving specifications start on: nothing, a
\* run interrupted in preprocessor.save, the pair of one run on either raw
\* file, and the model of a second run beside the preprocessor of the first
Deployments ==
    LET Model(raw, model_type, params, run) ==
            joblib_dump(Trained(raw, model_type, params, run).model)
        Preprocessor(raw, model_type, params, run) ==
            joblib_dump(Trained(raw, model_type, params, run).preprocessor)
    IN {d \in {<<NoFile, NoFile>>,
               <<Model(RawTelco, "random_forest", 0, 1), Partial>>,
               <<Model(RawTelco, "random_forest", 0, 1),
                 Preprocessor(RawTelco, "random_forest", 0, 1)>>,
               <<Model(RawNoTenure, "logistic_regression", 4, 2),
                 Preprocessor(RawNoTenure, "logistic_regression", 4, 2)>>,
               <<Model(RawTelco, "random_forest", 0, 2),
                 Preprocessor(RawNoTenure, "random_forest", 0, 1)>>,
               <<Model(RawNoTenure, "logistic_regression", 4, 2),
                 Preprocessor(RawNoTenure, "random_forest", 0, 1)>>} :
           DeployedFiles(d[1], d[2])}

InitTrain ==
    /\ trainCsv = NoFile
    /\ trainPc = "idle"
    /\ trainRun = 0
    /\ trainModel = None
    /\ trainPreproc = NewPreprocessor
    /\ modelFile = NoFile
    /\ preprocFile = NoFile

InitLoad ==
    /\ lifespanPc = "unloaded"
    /\ loadedModel = None
    /\ loadError = NoError
    /\ predictor = None

InitReq ==
    /\ req = [c \in Conns |-> Idle]
    /\ resp = [c \in Conns |-> None]
    /\ calls = [c \in Conns |-> <<>>]
    /\ now = 0

NotCalled == [done |-> FALSE]
Returned(v) == [done |-> TRUE, val |-> v]

InitFn ==
    /\ fnIn = None
    /\ fnOut = NotCalled

Init == InitTrain /\ InitLoad /\ InitReq /\ InitFn

Train ==
    \/ \E raw \in RawDatasets : RunDataPipeline(raw)
    \/ \E config \in Configs : TrainFit(config)
    \/ SaveModelOpen
    \/ SaveModelClose
    \/ SavePreprocOpen
    \/ SavePreprocClose

Load ==
    \/ LifespanStart
    \/ CheckModelExists
    \/ CheckPreprocExists
    \/ LoadModel
    \/ LoadPreprocessor

Serve(conns, requests) ==
    \/ \E c \in conns, r \in requests : Receive(c, r)
    \/ \E c \in conns : Validate(c)
    \/ \E c \in conns : predict(c)
    \/ \E c \in conns : predict_single(c)
    \/ \E c \in conns : health_check(c)
    \/ \E c \in conns : readiness_check(c)
    \/ Tick

\* training runs, one startup and one connection
Next == Train \/ Load \/ Serve({1}, SmallRequests)

Spec == Init /\ [][Next]_vars

\* the training process alone: pipeline runs and training runs, no server
NextTrain == Train

SpecTrain == Init /\ [][NextTrain]_vars

\* the serving process over the files of earlier training runs
InitServe ==
    /\ trainCsv = NoFile
    /\ trainPc = "idle"
    /\ trainRun = MaxRuns
    /\ trainModel = None
    /\ trainPreproc = NewPreprocessor
    /\ \E d \in Deployments : modelFile = d[1] /\ preprocFile = d[2]
    /\ InitLoad /\ InitReq /\ InitFn

NextServe == Load \/ Serve(Conns, SmallRequests)

SpecServe == InitServe /\ [][NextServe]_vars

\* one connection and the wide range of request bodies
NextApi == Load \/ Serve({1}, WideRequests)

SpecApi == InitServe /\ [][NextApi]_vars

\* the probabilities _get_risk_level is applied to: a grid over [0, 1] and
\* the neighbours of the two thresholds
RiskStep == 500

RiskInputs ==
    {k * RiskStep : k \in 0..(ProbScale \div RiskStep)}
    \cup {29999, 30000, 30001, 59999, 60000, 60001}

InitRisk ==
    /\ InitTrain /\ InitLoad /\ InitReq
    /\ fnIn \in RiskInputs
    /\ fnOut = NotCalled

\* _get_risk_level(probability) is called
CallRiskLevel ==
    /\ ~fnOut.done
    /\ fnOut' = Returned(get_risk_level(fnIn))
    /\ UNCHANGED fnIn
    /\ UNCHANGED <<trainVars, loadVars, reqVars>>

NextRisk == CallRiskLevel

SpecRisk == InitRisk /\ [][NextRisk]_vars

----------------------------------------------------------------------------
(* Properties *)

Done(c) == req[c].pc = "done"

IsPrediction(c) == req[c].endpoint \in {"predict", "predict_single"}

ClientError(c) == resp[c].status >= 400 /\ resp[c].status =< 499

\* the customer records a prediction request carries
RequestRecords(c) ==
    IF req[c].endpoint = "predict_single" THEN {req[c].body}
    ELSE IF "customers" \in DOMAIN req[c].body
    THEN Range(req[c].body.customers) ELSE {}

\* C1 as stated: every prediction call made while the Predictor is not
\* Ready is answered 503 and makes no call into the predictor.
C1_Original ==
    \A c \in Conns :
        Done(c) /\ IsPrediction(c) /\ PredictorState # "Ready"
        => resp[c].status = 503 /\ calls[c] = <<>>

\* C1 amended: a prediction call made while the Predictor is not Ready makes
\* no call into the predictor; it is answered 503 when its body validates
\* and 422 when it does not.
C1_ReadinessGating ==
    \A c \in Conns :
        Done(c) /\ IsPrediction(c) /\ PredictorState # "Ready"
        => /\ calls[c] = <<>>
           /\ resp[c].status =
                  IF BodyValid(req[c].endpoint, req[c].body) THEN 503 ELSE 422

C1_Witness ==
    \E c \in Conns :
        /\ Done(c) /\ req[c].endpoint = "predict"
        /\ PredictorState = "Failed"
        /\ resp[c].status = 503

\* the step of the startup that is about to run raises
LoadStepRaises ==
    \/ lifespanPc = "check_model" /\ modelFile = NoFile
    \/ lifespanPc = "check_preproc" /\ preprocFile = NoFile
    \/ lifespanPc = "load_model" /\ ~IsFile(modelFile)
    \/ lifespanPc = "load_preproc" /\ ~IsFile(preprocFile)

C2_Step ==
    /\ PredictorState' # PredictorState
       => <<PredictorState, PredictorState'>> \in
             {<<"Unloaded", "Loading">>, <<"Loading", "Ready">>,
              <<"Loading", "Failed">>}
    /\ lifespanPc' # lifespanPc /\ LoadStepRaises
       => PredictorState' = "Failed" /\ predictor' = None
    /\ PredictorState' = "Ready" /\ PredictorState # "Ready"
       => ~LoadStepRaises /\ loadError' = NoError

\* C2: the Predictor moves only Unloaded -> Loading -> Ready or
\* Unloaded -> Loading -> Failed; a startup step that finds a file missing
\* or whose restore raises ends in Failed with the handle None, never Ready.
C2_LoadStateMachine == [][C2_Step]_vars

C2_Witness ==
    /\ PredictorState = "Failed"
    /\ loadError # NoError
    /\ loadError.type = "EOFError"

\* C3: a Ready Predictor holds a preprocessor whose output width equals the
\* input width its model expects (a mismatch ends the load in Failed).
C3_WidthFailFast ==
    PredictorState = "Ready"
    => OutputWidth(predictor.preprocessor.column_transformer)
       = predictor.model.model.n_features_in

\* C4: a Ready Predictor holds a model and a preprocessor that the same
\* training run produced, however the save steps and the load interleave.
C4_PairIntegrity ==
    PredictorState = "Ready"
    => predictor.model.run = predictor.preprocessor.run

C5_Step ==
    /\ lifespanPc = "serving"
       => predictor' = predictor /\ lifespanPc' = "serving"
    /\ predictor' # predictor => \A c \in Conns : req[c].pc = "idle"
    /\ req' # req => lifespanPc = "serving"

\* C5: the predictor handle is written only during startup, before any
\* request is handled; once the startup is over no step changes it, so
\* Failed stays Failed and Ready stays Ready.
C5_LoadOnce == [][C5_Step]_vars

C5_Witness ==
    /\ PredictorState = "Failed"
    /\ IsFile(modelFile) /\ IsFile(preprocFile)
    /\ \E c \in Conns :
          Done(c) /\ req[c].endpoint = "predict" /\ resp[c].status = 503

\* C6: the risk level is low below 0.30, medium from 0.30 to below 0.60 and
\* high from 0.60 on; every probability gets exactly one of the three.
C6_RiskLevel ==
    fnOut.done
    => /\ fnOut.val \in {"low", "medium", "high"}
       /\ fnOut.val = "low" <=> fnIn < 30000
       /\ fnOut.val = "medium" <=> fnIn >= 30000 /\ fnIn < 60000
       /\ fnOut.val = "high" <=> fnIn >= 60000

C6_Witness == fnOut.done /\ fnIn = 30000 /\ fnOut.val = "medium"

MissingField(rec) == CustomerFields \ DOMAIN rec # {}

BlankCategorical(rec) ==
    \E f \in CategoricalFields \cap DOMAIN rec :
        /\ rec[f].t = "str"
        /\ \A i \in 1..Len(rec[f].v) : rec[f].v[i] \in Whitespace

\* C7: a prediction request with a required field missing or a categorical
\* field empty or blank is answered with a client error and makes no call
\* into the predictor.
C7_ValidationFirst ==
    \A c \in Conns :
        /\ Done(c) /\ IsPrediction(c)
        /\ \E rec \in RequestRecords(c) :
              MissingField(rec) \/ BlankCategorical(rec)
        => ClientError(c) /\ calls[c] = <<>>

C7_Witness ==
    /\ PredictorState = "Ready"
    /\ \E c \in Conns :
          /\ Done(c) /\ req[c].endpoint = "predict"
          /\ \E rec \in RequestRecords(c) :
                ~MissingField(rec) /\ BlankCategorical(rec)
          /\ resp[c].status = 422

\* C8: a batch of 0 or of more than 1000 records is answered with a client
\* error, and the predictor is called only for batches of 1 to 1000 records.
C8_BatchBound ==
    \A c \in Conns :
        Done(c) /\ req[c].endpoint = "predict"
        /\ "customers" \in DOMAIN req[c].body
        => LET n == Len(req[c].body.customers)
           IN /\ n < 1 \/ n > 1000 => ClientError(c) /\ calls[c] = <<>>
              /\ calls[c] # <<>> \/ resp[c].status = 200
                 => n >= 1 /\ n =< 1000

C8_Witness ==
    /\ PredictorState = "Ready"
    /\ \E c \in Conns :
          /\ Done(c) /\ req[c].endpoint = "predict"
          /\ "customers" \in DOMAIN req[c].body
          /\ Len(req[c].body.customers) = 1001
          /\ resp[c].status = 422

\* C9: /ready answers 200 exactly when the Predictor is Ready and 503
\* otherwise; /health always answers 200 and its model_loaded flag is true
\* exactly when the Predictor is Ready.
C9_ReadinessLiveness ==
    \A c \in Conns :
        Done(c)
        => /\ req[c].endpoint = "ready"
              => /\ resp[c].status = 200 <=> PredictorState = "Ready"
                 /\ resp[c].status = 503 <=> PredictorState # "Ready"
           /\ req[c].endpoint = "health"
              => /\ resp[c].status = 200
                 /\ resp[c].body.model_loaded <=> PredictorState = "Ready"

C9_Witness ==
    \E c, d \in Conns :
        /\ Done(c) /\ req[c].endpoint = "ready" /\ resp[c].status = 503
        /\ Done(d) /\ req[d].endpoint = "health" /\ resp[d].status = 200
        /\ ~resp[d].body.model_loaded

\* the predictor a process started on the present files holds
SoloPredictor ==
    IF IsFile(modelFile) /\ IsFile(preprocFile)
    THEN [model |-> joblib_load(modelFile).val,
          preprocessor |-> joblib_load(preprocFile).val]
    ELSE None

\* the answer to request r of a process that serves nothing else, at time t
SoloResponse(r, t) ==
    IF ~BodyValid(r.endpoint, r.body)
    THEN [status |-> 422, detail |-> <<"validation error">>]
    ELSE IF r.endpoint = "predict"
    THEN PredictOutcome(SoloPredictor, r.body, t)[1]
    ELSE PredictSingleOutcome(SoloPredictor, r.body, t)[1]

\* C10: on files that load, whatever the interleaving of the requests and
\* whichever of them fail, the loaded model and preprocessor stay as they
\* were loaded and every prediction request is answered as it would be
\* answered alone.
C10_RequestIsolation ==
    lifespanPc = "serving" /\ SoloPredictor # None
    => /\ predictor = SoloPredictor
       /\ \A c \in Conns :
             Done(c) /\ IsPrediction(c)
             => \E t \in 0..now : resp[c] = SoloResponse(req[c], t)

C10_Witness ==
    /\ SoloPredictor # None
    /\ \E c, d \in Conns :
          /\ c # d
          /\ Done(c) /\ IsPrediction(c) /\ resp[c].status = 500
          /\ Done(d) /\ IsPrediction(d) /\ resp[d].status = 500

\* the exception the predictor raises on the request of connection c, or
\* None when it raises none
InternalError(c) ==
    IF predictor = None \/ ~BodyValid(req[c].endpoint, req[c].body) THEN None
    ELSE LET raised == IF req[c].endpoint = "predict"
                       THEN ChurnPredictor_predict(
                                predictor,
                                DataFrame([i \in 1..Len(req[c].body.customers)
                                              |-> dict(req[c].body.customers[i])]))[1]
                       ELSE ChurnPredictor_predict_single(
                                predictor, dict(req[c].body))[1]
         IN IF raised.ok THEN None ELSE raised.exc

\* C11: the response to a prediction that failed inside transform or predict
\* is generic: after its fixed text the detail carries nothing of the
\* internal exception, so failures with different exceptions are answered
\* alike.
C11_GenericFailure ==
    \A c \in Conns :
        Done(c) /\ IsPrediction(c) /\ resp[c].status = 500
        => /\ InternalError(c) # None
           /\ \A i \in 1..Len(Tail(resp[c].detail)) :
                 Tail(resp[c].detail)[i] # InternalError(c).msg

----------------------------------------------------------------------------
(* The methods of one ChurnPreprocessor object, called in any order.       *)
(* trainPreproc is the object, fnIn the last call and its argument, fnOut  *)
(* what the call returned or raised.                                       *)

\* X_train and X_val of train_model: a split without its target column
TrainFrame(raw) == drop(run_data_pipeline(raw).train, {"Churn"})
ValFrame(raw) == drop(run_data_pipeline(raw).val, {"Churn"})

\* df with its rows in reverse order
Reversed(df) ==
    [df EXCEPT !.rows = [i \in 1..Len(df.rows) |->
                            df.rows[Len(df.rows) + 1 - i]]]

\* df with the column c set to v in every row
SetColumn(df, c, v) ==
    [df EXCEPT !.rows = [i \in 1..Len(df.rows) |->
                            [df.rows[i] EXCEPT ![c] = v]]]

\* the frames fit is called on
FitInputs ==
    {TrainFrame(RawTelco), Reversed(TrainFrame(RawTelco)),
     TrainFrame(RawNoTenure), ValFrame(RawTelco)}

\* the frames transform is called on: the fit frames, frames with a Contract
\* value no fit frame holds, and the frames the API builds from requests
TransformInputs ==
    FitInputs
    \cup {SetColumn(X, "Contract", <<"Three", " ", "year">>) : X \in FitInputs}
    \cup {DataFrame(<<dict(c)>>) :
             c \in {BaseCustomer, AltCustomer, UnseenCustomer}}
    \cup {DataFrame(<<dict(AltCustomer), dict(UnseenCustomer)>>)}

Call(op, X) == [op |-> op, X |-> X]

InitPrep ==
    /\ InitTrain /\ InitLoad /\ InitReq /\ InitFn

\* preprocessor.fit(X): the object's column_transformer and feature_names
\* are assigned; fit returns self
PrepFit(X) ==
    /\ trainPc = "idle"
    /\ trainPreproc' = fit(X)
    /\ fnIn' = Call("fit", X)
    /\ fnOut' = Returned(Ok(fit(X)))
    /\ UNCHANGED <<trainCsv, trainPc, trainRun, trainModel, modelFile,
                   preprocFile>>
    /\ UNCHANGED <<loadVars, reqVars>>

\* transform that fits the object on its argument before transforming it
PrepTransform_Refit(X) ==
    /\ trainPc = "idle"
    /\ trainPreproc' = fit(X)
    /\ fnIn' = Call("transform", X)
    /\ fnOut' = Returned(transform(trainPreproc, X))
    /\ UNCHANGED <<trainCsv, trainPc, trainRun, trainModel, modelFile,
                   preprocFile>>
    /\ UNCHANGED <<loadVars, reqVars>>

\* preprocessor.transform(X)
PrepTransform(X) ==
    /\ trainPc = "idle"
    /\ fnIn' = Call("transform", X)
    /\ fnOut' = Returned(transform(trainPreproc, X))
    /\ UNCHANGED <<trainVars, loadVars, reqVars>>

\* preprocessor.fit_transform(X): self.fit(X), then self.transform(X)
PrepFitTransform(X) ==
    /\ trainPc = "idle"
    /\ trainPreproc' = fit(X)
    /\ fnIn' = Call("fit_transform", X)
    /\ fnOut' = Returned(transform(fit(X), X))
    /\ UNCHANGED <<trainCsv, trainPc, trainRun, trainModel, modelFile,
                   preprocFile>>
    /\ UNCHANGED <<loadVars, reqVars>>

\* preprocessor.save(filepath) is called; SavePreprocOpen and
\* SavePreprocClose are its two steps
PrepSave ==
    /\ trainPc = "idle"
    /\ trainPc' = "save_preproc"
    /\ fnIn' = Call("save", None)
    /\ fnOut' = NotCalled
    /\ UNCHANGED <<trainCsv, trainRun, trainModel, trainPreproc, modelFile,
                   preprocFile>>
    /\ UNCHANGED <<loadVars, reqVars>>

NextPrep ==
    \/ \E X \in FitInputs : PrepFit(X)
    \/ \E X \in TransformInputs : PrepTransform(X)
    \/ \E X \in FitInputs : PrepFitTransform(X)
    \/ PrepSave
    \/ SavePreprocOpen
    \/ SavePreprocClose

SpecPrep == InitPrep /\ [][NextPrep]_vars

\* a call of `op` has returned
Called(op) == fnIn # None /\ fnIn.op = op /\ fnOut.done

\* the preprocessor object holds a fitted state
Fitted == trainPreproc.column_transformer # None

\* the columns a fitted transformer reads
FittedColumns(ct) == Range(ct.num) \cup Range(ct.cat)

\* the argument of the last call holds every column the object was fitted on
InputComplete ==
    Fitted /\ FittedColumns(trainPreproc.column_transformer)
                  \subseteq Range(fnIn.X.columns)

\* where the block of the k-th categorical column starts in an output vector
BlockStart(ct, k) ==
    Len(ct.num) + SumSeq([j \in 1..(k - 1) |->
                             Len(ct.categories[ct.cat[j]]) - 1])

\* the block of the k-th categorical column in the output vector vec
Block(ct, vec, k) ==
    SubSeq(vec, BlockStart(ct, k) + 1,
           BlockStart(ct, k) + Len(ct.categories[ct.cat[k]]) - 1)

Zeros(n) == [j \in 1..n |-> 0]

\* the rows of the last call's argument whose Contract is v
RowsWith(c, v) ==
    {i \in 1..Len(fnIn.X.rows) : fnIn.X.rows[i][c] = v}

\* C12: transform of a record whose value in a categorical column was not
\* seen during fit does not raise, leaves the output at the fitted width and
\* gives that column the all-zero block; after a fit of Contract on
\* {Month-to-month, One year, Two year}, "Three year" gets the all-zero block
\* and "Two year" a block other than that of "Month-to-month".
C12_UnknownCategory ==
    Called("transform") /\ InputComplete
    => LET ct == trainPreproc.column_transformer
           X == fnIn.X
       IN /\ fnOut.val.ok
          /\ \A i \in 1..Len(X.rows), k \in 1..Len(ct.cat) :
                X.rows[i][ct.cat[k]] \notin Range(ct.categories[ct.cat[k]])
                => /\ Len(fnOut.val.val[i]) = OutputWidth(ct)
                   /\ Block(ct, fnOut.val.val[i], k)
                      = Zeros(Len(ct.categories[ct.cat[k]]) - 1)
          /\ \A k \in 1..Len(ct.cat) :
                /\ ct.cat[k] = "Contract"
                /\ Range(ct.categories["Contract"])
                   = {<<"Month-to-month">>, <<"One", " ", "year">>,
                      <<"Two", " ", "year">>}
                => /\ \A i \in RowsWith("Contract", <<"Three", " ", "year">>) :
                         Block(ct, fnOut.val.val[i], k) = <<0, 0>>
                   /\ \A i \in RowsWith("Contract", <<"Two", " ", "year">>),
                         j \in RowsWith("Contract", <<"Month-to-month">>) :
                         Block(ct, fnOut.val.val[i], k)
                         # Block(ct, fnOut.val.val[j], k)

C12_Witness ==
    /\ Called("transform") /\ InputComplete /\ fnOut.val.ok
    /\ Range(trainPreproc.column_transformer.categories["Contract"])
       = {<<"Month-to-month">>, <<"One", " ", "year">>, <<"Two", " ", "year">>}
    /\ RowsWith("Contract", <<"Three", " ", "year">>) # {}
    /\ RowsWith("Contract", <<"Two", " ", "year">>) # {}

\* C14: every output vector of a transform on a fitted object has the fitted
\* output width, the number of numeric columns plus, for each categorical
\* column, its vocabulary size minus one, whatever values the records hold;
\* transform returns one vector per record.
C14_Dimensionality ==
    (Called("transform") \/ Called("fit_transform")) /\ InputComplete
    => LET ct == trainPreproc.column_transformer
       IN /\ fnOut.val.ok
          /\ Len(fnOut.val.val) = Len(fnIn.X.rows)
          /\ \A i \in 1..Len(fnOut.val.val) :
                Len(fnOut.val.val[i]) = OutputWidth(ct)
          /\ Len(trainPreproc.feature_names) = OutputWidth(ct)

C14_Witness ==
    /\ Called("transform") /\ InputComplete /\ fnOut.val.ok
    /\ Len(fnOut.val.val) = 2
    /\ RowsWith("Contract", <<"Three", " ", "year">>) # {}
    /\ RowsWith("gender", <<"Male">>) # {}
    /\ OutputWidth(trainPreproc.column_transformer)
       > Len(trainPreproc.column_transformer.num)
    /\ Len(fnOut.val.val[1]) = OutputWidth(trainPreproc.column_transformer)

\* the last call fitted the object on its argument
JustFitted == (Called("fit") \/ Called("fit_transform")) /\ Fitted

\* the categories of column c that get no output column
Dropped(p, c) ==
    LET ct == p.column_transformer
        names == SubSeq(p.feature_names, Len(ct.num) + 1, Len(p.feature_names))
    IN {v \in Range(ct.categories[c]) : <<c, v>> \notin Range(names)}

\* the fitted vocabulary of column c is the set of the values of the column
\* in the training frame, each once
VocabularyIsObserved(c) ==
    LET cats == trainPreproc.column_transformer.categories[c]
    IN /\ Range(cats) = Range(Column(fnIn.X, c))
       /\ Len(cats) = Cardinality(Range(cats))

\* C13 as stated: the fitted vocabulary of every categorical column is the
\* set of distinct values observed in the training set, and the category
\* dropped from the output block is the first one seen in the training data.
C13_Original ==
    JustFitted
    => \A c \in Range(trainPreproc.column_transformer.cat) :
          /\ VocabularyIsObserved(c)
          /\ Dropped(trainPreproc, c) = {Column(fnIn.X, c)[1]}

\* C13 amended: the fitted vocabulary of every categorical column is the set
\* of distinct values observed in the training set, and the category dropped
\* from the output block is the first one of the vocabulary in sorted order.
C13_Vocabulary ==
    JustFitted
    => \A c \in Range(trainPreproc.column_transformer.cat) :
          /\ VocabularyIsObserved(c)
          /\ \E d \in Range(Column(fnIn.X, c)) :
                /\ Dropped(trainPreproc, c) = {d}
                /\ \A v \in Range(Column(fnIn.X, c)) \ {d} : StrLess(d, v)

C13_Witness ==
    /\ JustFitted
    /\ "InternetService" \in Range(trainPreproc.column_transformer.cat)
    /\ Column(fnIn.X, "InternetService")[1] = <<"Fiber", " ", "optic">>
    /\ Dropped(trainPreproc, "InternetService") = {<<"DSL">>}

\* the step is a call of transform
TransformStep == fnIn' # None /\ fnIn'.op = "transform" /\ fnOut'.done

C15_Step ==
    /\ TransformStep => trainPreproc' = trainPreproc
    /\ TransformStep /\ Called("transform") /\ fnIn' = fnIn
       => fnOut' = fnOut

C16_NotFitted ==
    Called("transform") /\ ~Fitted
    => /\ ~fnOut.val.ok
       /\ fnOut.val.exc.type = "ValueError"
       /\ fnOut.val.exc.msg = <<"Preprocessor must be fitted before transform">>

C16_Witness ==
    /\ Called("transform") /\ ~Fitted
    /\ ~fnOut.val.ok
    /\ IsFile(preprocFile)

\* C17: fit on training records that lack a required feature column fails
\* with a schema mismatch error and produces no fitted state.
C17_SchemaMismatch ==
    Called("fit") /\ CustomerFields \ Range(fnIn.X.columns) # {}
    => ~fnOut.val.ok /\ ~Fitted

\* C18: once the object is fitted, no call (transform, save, or a fit on
\* other data) changes the state it holds.
C18_FittedStateImmutable == [][Fitted => trainPreproc' = trainPreproc]_vars

\* the matrices the trained model is applied to: what the preprocessor of
\* the run makes of the transform frames
Matrices ==
    {transform(trainPreproc, X).val :
        X \in {Y \in TransformInputs : transform(trainPreproc, Y).ok}}

C19_Step ==
    /\ modelFile' # modelFile /\ IsFile(modelFile')
       => LET restored == joblib_load(modelFile')
          IN /\ restored.ok
             /\ restored.val = trainModel
             /\ \A X \in Matrices :
                   /\ model_predict(restored.val, X)
                      = model_predict(trainModel, X)
                   /\ predict_proba(restored.val, X)
                      = predict_proba(trainModel, X)
    /\ preprocFile' # preprocFile /\ IsFile(preprocFile')
       => LET restored == joblib_load(preprocFile')
          IN /\ restored.ok
             /\ restored.val = trainPreproc
             /\ \A X \in TransformInputs :
                   transform(restored.val, X) = transform(trainPreproc, X)

ResponseProbabilities(c) ==
    IF req[c].endpoint = "predict"
    THEN {resp[c].body.predictions[i].churn_probability :
             i \in 1..Len(resp[c].body.predictions)}
    ELSE {resp[c].body.churn_probability}

\* C20: every churn_probability of a prediction response is a multiple of
\* 0.0001 between 0.0 and 1.0, both included.
C20_ProbabilityBound ==
    \A c \in Conns :
        Done(c) /\ IsPrediction(c) /\ resp[c].status = 200
        => \A p \in ResponseProbabilities(c) :
              p >= 0 /\ p =< ProbScale /\ p % (ProbScale \div 10000) = 0

C20_Witness ==
    \E c \in Conns :
        /\ Done(c) /\ req[c].endpoint = "predict" /\ resp[c].status = 200
        /\ Len(resp[c].body.predictions) = 2
        /\ ProbScale \in ResponseProbabilities(c)

\* what POST /predict answers to the batch of the one record r at time t
BatchOfOne(r, t) == PredictOutcome(predictor, [customers |-> <<r>>], t)[1]

\* C21: on a Ready predictor the answer to a single-customer prediction of r
\* has the status of the answer to the batch [r], and when both succeed its
\* label, churn probability and risk level are those of element 0 of the
\* batch answer.
C21_SingleIsBatchOfOne ==
    \A c \in Conns :
        /\ Done(c) /\ req[c].endpoint = "predict_single"
        /\ PredictorState = "Ready" /\ CustomerValid(req[c].body)
        => LET batch == BatchOfOne(req[c].body, now)
           IN /\ resp[c].status = batch.status
              /\ resp[c].status = 200
                 => LET first == batch.body.predictions[1]
                    IN /\ Len(batch.body.predictions) = 1
                       /\ resp[c].body.will_churn = first.will_churn
                       /\ resp[c].body.churn_probability
                          = first.churn_probability
                       /\ resp[c].body.risk_level = first.risk_level

C21_Witness ==
    \E c \in Conns :
        /\ Done(c) /\ req[c].endpoint = "predict_single"
        /\ PredictorState = "Ready"
        /\ resp[c].status = 200
        /\ req[c].body = UnseenCustomer
        /\ resp[c].body.will_churn
           = BatchOfOne(req[c].body, now).body.predictions[1].will_churn

----------------------------------------------------------------------------
(* DriftMonitor (monitoring/drift_monitor.py).  A share of columns is an   *)
(* integer number of thousandths; a dict is a record and a key it lacks is *)
(* a field it lacks.                                                       *)

\* d.get(k, default)
Get(d, k, default) == IF k \in DOMAIN d THEN d[k] ELSE default

\* the result of Evidently's DatasetDriftMetric, as DataDriftPreset() sets it
\* up, on n columns of which the column tests flag `drifted`: drift_share is
\* left at its default of 0.5 and the data set counts as drifted from that
\* share on
DatasetDriftMetric(n, drifted) ==
    [metric |-> "DatasetDriftMetric",
     result |-> [drift_share |-> 500,
                 number_of_columns |-> n,
                 number_of_drifted_columns |-> Cardinality(drifted),
                 share_of_drifted_columns |-> (Cardinality(drifted) * 1000) \div n,
                 dataset_drift |->
                     (Cardinality(drifted) * 1000) \div n >= 500]]

\* DriftMonitor._extract_drift_summary: the values of the last
\* DatasetDriftMetric of the report over the defaults
RECURSIVE extract_drift_summary(_, _)
extract_drift_summary(report_json, t) ==
    LET metrics == Get(report_json, "metrics", <<>>)
    IN IF metrics = <<>>
       THEN [timestamp |-> t,
             dataset_drift_detected |-> FALSE,
             number_of_drifted_columns |-> 0,
             share_of_drifted_columns |-> 0,
             drifted_features |-> <<>>]
       ELSE LET last == metrics[Len(metrics)]
                result == Get(last, "result", <<>>)
            IN IF Get(last, "metric", "") = "DatasetDriftMetric"
               THEN [timestamp |-> t,
                     dataset_drift_detected |->
                         Get(result, "dataset_drift", FALSE),
                     number_of_drifted_columns |->
                         Get(result, "number_of_drifted_columns", 0),
                     share_of_drifted_columns |->
                         Get(result, "share_of_drifted_columns", 0),
                     drifted_features |->
                         Get(result, "drift_by_columns", <<>>)]
               ELSE extract_drift_summary(
                        [metrics |-> SubSeq(metrics, 1, Len(metrics) - 1)], t)

\* check_drift_alert with the share compared by >=
check_drift_alert_AtLeast(drift_summary, threshold) ==
    \/ Get(drift_summary, "share_of_drifted_columns", 0) >= threshold
    \/ Get(drift_summary, "dataset_drift_detected", FALSE)

\* DriftMonitor.check_drift_alert
check_drift_alert(drift_summary, threshold) ==
    LET share_drifted == Get(drift_summary, "share_of_drifted_columns", 0)
        dataset_drift == Get(drift_summary, "dataset_drift_detected", FALSE)
    IN share_drifted > threshold \/ dataset_drift

\* generate_drift_report(current_data): the report of DataDriftPreset and
\* DataQualityPreset is run and summarised; which of the five feature
\* columns the column tests flag is the outcome of the comparison
GenerateDriftReport ==
    \E drifted \in SUBSET {"tenure", "MonthlyCharges", "TotalCharges",
                           "gender", "Contract"} :
        /\ fnIn' = Call("generate_drift_report", drifted)
        /\ fnOut' = Returned(extract_drift_summary(
                        [metrics |-> <<DatasetDriftMetric(5, drifted),
                                       [metric |-> "DataDriftTable"],
                                       [metric |-> "DatasetSummaryMetric"]>>],
                        now))
        /\ UNCHANGED <<trainVars, loadVars, reqVars>>

\* check_drift_alert(drift_summary, threshold) on a report put together by
\* hand: any of the two keys may be missing
CheckDriftAlert ==
    \E share \in {0, 100, 299, 300, 301, 400, 500, 1000},
       flag \in BOOLEAN, keys \in SUBSET {"share", "flag"},
       threshold \in {0, 300, 500, 1000} :
        LET report ==
                [k \in {"timestamp"}
                       \cup (IF "share" \in keys
                             THEN {"share_of_drifted_columns"} ELSE {})
                       \cup (IF "flag" \in keys
                             THEN {"dataset_drift_detected"} ELSE {}) |->
                    IF k = "share_of_drifted_columns" THEN share
                    ELSE IF k = "dataset_drift_detected" THEN flag
                    ELSE now]
        IN /\ fnIn' = [op |-> "check_drift_alert", X |-> report,
                       threshold |-> threshold]
           /\ fnOut' = Returned(check_drift_alert(report, threshold))
           /\ UNCHANGED <<trainVars, loadVars, reqVars>>

NextDrift == GenerateDriftReport \/ CheckDriftAlert

SpecDrift == Init /\ [][NextDrift]_vars

\* the share and the flag a report stands for: a missing share is 0 and a
\* missing flag is false
ReportShare(report) ==
    IF "share_of_drifted_columns" \in DOMAIN report
    THEN report.share_of_drifted_columns ELSE 0

ReportFlag(report) ==
    "dataset_drift_detected" \in DOMAIN report /\ report.dataset_drift_detected

\* C22: check_drift_alert returns true exactly when the report's share of
\* drifted columns is strictly greater than the threshold or its dataset
\* flag is set; a share of 0.4 against 0.3 alerts, a share of 0.1 without
\* the flag against 0.3 does not.
C22_CheckAlert ==
    Called("check_drift_alert")
    => /\ fnOut.val \in BOOLEAN
       /\ fnOut.val <=> (ReportShare(fnIn.X) > fnIn.threshold
                         \/ ReportFlag(fnIn.X))
       /\ ReportShare(fnIn.X) = 400 /\ fnIn.threshold = 300 => fnOut.val
       /\ ReportShare(fnIn.X) = 100 /\ ~ReportFlag(fnIn.X)
          /\ fnIn.threshold = 300 => ~fnOut.val
       /\ ReportShare(fnIn.X) = fnIn.threshold /\ ~ReportFlag(fnIn.X)
          => ~fnOut.val

C22_Witness ==
    /\ Called("check_drift_alert")
    /\ DOMAIN fnIn.X = {"timestamp", "dataset_drift_detected"}
    /\ fnIn.X.dataset_drift_detected
    /\ fnIn.threshold = 1000
    /\ fnOut.val

\* C23: in every report generate_drift_report produces, the dataset-level
\* drift flag is true if the share of drifted columns exceeds the share
\* threshold of 0.3 or the aggregate dataset-drift test flags drift.
C23_DatasetFlag ==
    Called("generate_drift_report")
    => (\/ fnOut.val.share_of_drifted_columns > 300
        \/ DatasetDriftMetric(5, fnIn.X).result.dataset_drift
        => fnOut.val.dataset_drift_detected)

\* C24: the response to a successful batch prediction of n customers holds
\* n entries; entry i carries the index i, counted from 0, and the result of
\* the i-th customer of the request; the response carries a model version
\* and a timestamp.
C24_BatchShape ==
    \A c \in Conns :
        Done(c) /\ req[c].endpoint = "predict" /\ resp[c].status = 200
        => LET customers == req[c].body.customers
               predictions == resp[c].body.predictions
           IN /\ Len(predictions) = Len(customers)
              /\ \A i \in 1..Len(predictions) :
                    predictions[i]
                    = [BatchOfOne(customers[i], now).body.predictions[1]
                          EXCEPT !.customer_index = i - 1]
              /\ resp[c].body.model_version = "1.0.0"
              /\ resp[c].body.timestamp \in 0..now

C24_Witness ==
    \E c \in Conns :
        /\ Done(c) /\ req[c].endpoint = "predict" /\ resp[c].status = 200
        /\ Len(resp[c].body.predictions) = 2
        /\ req[c].body.customers[1] # req[c].body.customers[2]
        /\ resp[c].body.predictions[1].churn_probability
           # resp[c].body.predictions[2].churn_probability
        /\ resp[c].body.predictions[2].customer_index = 1

\* C25: a request that passed validation holds every column the preprocessor
\* of a Ready predictor was fitted on, and is never failed for a missing
\* feature column.
C25_ColumnCoverage ==
    \A c \in Conns :
        /\ Done(c) /\ IsPrediction(c) /\ PredictorState = "Ready"
        /\ BodyValid(req[c].endpoint, req[c].body)
        => /\ FittedColumns(predictor.preprocessor.column_transformer)
              \subseteq CustomerFields
           /\ InternalError(c) # None
              => InternalError(c).msg[1] # "columns are missing: "

\* the entries of a 200 response to a prediction request
ResponseEntries(c) ==
    IF req[c].endpoint = "predict" THEN Range(resp[c].body.predictions)
    ELSE {resp[c].body}

\* C26: in every prediction response, batch and single, the risk level is
\* the threshold function of the churn probability the response reports,
\* the value rounded to 4 decimals.
C26_RiskMatchesReported ==
    \A c \in Conns :
        Done(c) /\ IsPrediction(c) /\ resp[c].status = 200
        => \A e \in ResponseEntries(c) :
              e.risk_level = get_risk_level(e.churn_probability)

\* C27: for every categorical column, the block transform gives a value
\* unseen at fit differs from the block of every value of the fitted
\* vocabulary.
C27_UnseenDistinct ==
    Called("transform") /\ InputComplete /\ fnOut.val.ok
    => LET ct == trainPreproc.column_transformer
       IN \A i \in 1..Len(fnIn.X.rows), k \in 1..Len(ct.cat) :
             LET cats == ct.categories[ct.cat[k]]
             IN fnIn.X.rows[i][ct.cat[k]] \notin Range(cats)
                => \A w \in Range(cats) :
                      Block(ct, fnOut.val.val[i], k) # EncoderTransform(cats, w)

\* the program counter values of train_model between the end of the
\* evaluation and the end of the run
Saving == {"save_model", "write_model", "save_preproc", "write_preproc"}

\* the features of the training split of the processed data
TrainSplit == drop(trainCsv.train, {"Churn"})

\* the features of the validation split of the processed data
ValSplit == drop(trainCsv.val, {"Churn"})

C28_Step ==
    \* a run reaches its save steps only with both objects of this run:
    \* the preprocessor fitted on the training split, the model fitted on
    \* the matrix that preprocessor makes of the training split
    /\ trainPc = "idle" /\ trainPc' # "idle"
       => /\ trainCsv # NoFile
          /\ trainPc' = "save_model"
          /\ trainPreproc' = Stamp(fit(TrainSplit), trainRun')
          /\ trainModel'.run = trainRun'
          /\ transform(trainPreproc', TrainSplit).ok
          /\ trainModel'.model.n_features_in
             = Len(transform(trainPreproc', TrainSplit).val[1])
    \* nothing fits either object again while the run saves
    /\ trainPc \in Saving
       => trainPreproc' = trainPreproc /\ trainModel' = trainModel
    \* a file is written only by a run that is past its evaluation, and
    \* what is written out is the object of that run
    /\ modelFile' # modelFile
       => /\ trainPc \in {"save_model", "write_model"}
          /\ trainModel.run = trainRun
          /\ IsFile(modelFile') => joblib_load(modelFile').val = trainModel
    /\ preprocFile' # preprocFile
       => /\ trainPc \in {"save_preproc", "write_preproc"}
          /\ trainPreproc.run = trainRun
          /\ IsFile(preprocFile')
             => /\ joblib_load(preprocFile').val = trainPreproc
                /\ IsFile(modelFile)
                /\ joblib_load(modelFile).val = trainModel
                /\ trainModel.model.n_features_in
                   = OutputWidth(trainPreproc.column_transformer)

\* C28: a training run fits the preprocessor once, on the training split
\* only; the model is fitted on the matrix that state makes of the training
\* split; neither object changes before it is saved; files are written
\* only after fitting and evaluation succeeded, and the two files a run
\* leaves hold that state and that model.
C28_TrainingConsistency == [][C28_Step]_vars

C28_Witness ==
    /\ trainPc = "idle" /\ trainRun = 1
    /\ trainCsv # NoFile
    /\ IsFile(modelFile) /\ IsFile(preprocFile)
    /\ joblib_load(preprocFile).val = Stamp(fit(TrainSplit), 1)
    /\ fit(ValSplit) # fit(TrainSplit)
    /\ joblib_load(modelFile).val.model.n_features_in
       = OutputWidth(joblib_load(preprocFile).val.column_transformer)

\* C29: the global predictor is None or an object holding both a restored
\* model and a restored preprocessor; it is None until the constructor has
\* returned, and a load that fails leaves it None, also when the model was
\* already restored.
C29_NoPartialPredictor ==
    /\ predictor # None
       => /\ DOMAIN predictor = {"model", "preprocessor"}
          /\ predictor.model # None
          /\ predictor.preprocessor # None
          /\ predictor.model = joblib_load(modelFile).val
          /\ predictor.preprocessor = joblib_load(preprocFile).val
          /\ lifespanPc = "serving" /\ loadError = NoError
    /\ lifespanPc # "serving" => predictor = None
    /\ loadError # NoError => predictor = None

C29_Witness ==
    /\ lifespanPc = "serving"
    /\ loadedModel # None
    /\ loadError # NoError
    /\ predictor = None

----------------------------------------------------------------------------
(* The data pipeline as a process of its own (pipeline.py): the lines it   *)
(* prints and the files it leaves, for raw files with and without a target *)

\* a raw file without the target column
RawNoChurn == drop(RawTelco, {"Churn"})

\* validate_target_variable: False when the column is absent
validate_target_variable(df, target_col) == target_col \in Range(df.columns)

\* split_data and save_splits: df.drop(columns=[target_col]) raises KeyError
\* when the column is absent, before anything is written
split_data(df, target_col) ==
    IF target_col \notin Range(df.columns)
    THEN Raise("KeyError", <<"['", target_col, "'] not found in axis">>)
    ELSE Ok(split_and_save(df))

\* run_data_pipeline from step 4 on: the progress lines printed (without
\* their check marks) and the splits written, or the exception
pipeline(raw) ==
    LET valid == validate_target_variable(raw, "Churn")
        df5 == encode_target(raw)
        df6 == engineer_features(df5)
        splits == split_data(df6, "Churn")
    IN [stdout |->
            <<"[4/7] Validating data...">>
            \o (IF valid THEN <<"Target variable values">>
                ELSE <<"Target column 'Churn' not found">>)
            \o <<"Data validated",
                 "[5/7] Encoding target variable...", "Target encoded",
                 "[6/7] Engineering features...", "Features engineered",
                 "[7/7] Splitting data into train/val/test sets...">>
            \o (IF splits.ok
                THEN <<"Saved splits to data/processed",
                       "Data Pipeline Complete!">>
                ELSE <<>>),
        result |-> splits]

\* python -m pipeline on any raw file
RunPipeline(raw) ==
    /\ fnIn' = Call("run_data_pipeline", raw)
    /\ fnOut' = Returned(pipeline(raw))
    /\ trainCsv' = IF pipeline(raw).result.ok
                   THEN pipeline(raw).result.val ELSE trainCsv
    /\ UNCHANGED <<trainPc, trainRun, trainModel, trainPreproc, modelFile,
                   preprocFile>>
    /\ UNCHANGED <<loadVars, reqVars>>

NextPipeline ==
    \/ \E raw \in RawDatasets \cup {RawNoChurn} : RunPipeline(raw)
    \/ \E config \in Configs : TrainFit(config)
    \/ SaveModelOpen
    \/ SaveModelClose
    \/ SavePreprocOpen
    \/ SavePreprocClose

\* pipeline runs on good and bad raw files, and training runs
SpecPipeline == Init /\ [][NextPipeline]_vars

\* the progress lines of the steps after validation
LaterSteps ==
    {"[5/7] Encoding target variable...", "Target encoded",
     "[6/7] Engineering features...", "Features engineered",
     "[7/7] Splitting data into train/val/test sets...",
     "Saved splits to data/processed", "Data Pipeline Complete!"}

\* C30: when validate_target_variable returns False for the data of a
\* pipeline run, none of the later steps (target encoding, feature
\* engineering, splitting, saving) is executed and no split is written.
C30_StopsOnInvalidTarget ==
    Called("run_data_pipeline")
    /\ ~validate_target_variable(fnIn.X, "Churn")
    => /\ Range(fnOut.val.stdout) \cap LaterSteps = {}
       /\ ~fnOut.val.result.ok

\* a pipeline run on data without a valid target leaves the split files as
\* they were
InvalidTargetWritesNothing ==
    [][fnIn' # None /\ fnIn'.op = "run_data_pipeline" /\ fnOut' # fnOut
       /\ ~validate_target_variable(fnIn'.X, "Churn")
       => trainCsv' = trainCsv]_vars

====
